---- MODULE Spec2Model ----
(***************************************************************************)
(* The hotel back end (src/server.js): an Express application over an      *)
(* in-memory SQLite database with the tables `submissions` and `rooms`.    *)
(* src/server.js holds three builds of the server.  The first (lines       *)
(* 1-198) serves GET/POST /api/submissions and GET /api/rooms and answers  *)
(* with the raw rows.  The third (lines 352-676) serves the submissions in *)
(* the transformed shape and the whole rooms API.  The second (lines       *)
(* 200-350) is the submissions part of the third, statement for statement, *)
(* and is covered by it.  `server` says which build is running.            *)
(***************************************************************************)
EXTENDS Integers, Sequences, FiniteSets, TLC

\* Requests (POST, PUT, DELETE) served in one behaviour.
MaxRequests == 3
\* Requests in flight together in the interleaved specification.
MaxInFlight == 2

----------------------------------------------------------------------------
(* JavaScript values found in a request body. *)

Undef == [t |-> "undefined"]
Str(s) == [t |-> "string", s |-> s]
Num(n) == [t |-> "number", n |-> n]
Arr(a) == [t |-> "array", a |-> a]

\* !v is false: the value is none of undefined, "", 0.
Truthy(v) == ~(v = Undef \/ v = Str("") \/ v = Num(0))

\* a || b
OrElse(a, b) == IF Truthy(a) THEN a ELSE b

(* SQLite values. *)

Null == [t |-> "null"]
Text(s) == [t |-> "text", s |-> s]
Integer(n) == [t |-> "integer", n |-> n]

\* node-sqlite3 binds a string as TEXT, a number as a number and leaves an
\* undefined parameter unbound, which SQLite reads as NULL.
Bind(v) ==
  CASE v.t = "string" -> Text(v.s)
    [] v.t = "number" -> Integer(v.n)
    [] OTHER -> Null

Digit(d) ==
  CASE d = 0 -> "0" [] d = 1 -> "1" [] d = 2 -> "2" [] d = 3 -> "3"
    [] d = 4 -> "4" [] d = 5 -> "5" [] d = 6 -> "6" [] d = 7 -> "7"
    [] d = 8 -> "8" [] d = 9 -> "9"

RECURSIVE NatToText(_)
NatToText(n) ==
  IF n < 10 THEN Digit(n) ELSE NatToText(n \div 10) \o Digit(n % 10)

IntToText(n) == IF n < 0 THEN "-" \o NatToText(0 - n) ELSE NatToText(n)

\* A column declared TEXT stores a number as its decimal text.
TextAffinity(v) == IF v.t = "integer" THEN Text(IntToText(v.n)) ELSE v

\* JSON.stringify of an array of strings.
RECURSIVE JoinQuoted(_)
JoinQuoted(a) ==
  IF Len(a) = 0 THEN ""
  ELSE IF Len(a) = 1 THEN "\"" \o a[1] \o "\""
  ELSE "\"" \o a[1] \o "\"," \o JoinQuoted(Tail(a))

JSONStringify(a) == "[" \o JoinQuoted(a) \o "]"

Max(a, b) == IF a >= b THEN a ELSE b

RECURSIVE MaxOf(_)
MaxOf(S) ==
  IF S = {} THEN 0
  ELSE LET x == CHOOSE y \in S : TRUE IN Max(x, MaxOf(S \ {x}))

----------------------------------------------------------------------------
(* The rooms the server inserts when it starts. *)

sampleRooms ==
  << [number |-> "101", type |-> "Standard", capacity |-> 2, price |-> 2500,
      amenities |-> <<"WiFi", "AC", "TV">>, status |-> "available"],
     [number |-> "102", type |-> "Standard", capacity |-> 2, price |-> 2500,
      amenities |-> <<"WiFi", "AC", "TV">>, status |-> "occupied"],
     [number |-> "201", type |-> "Deluxe", capacity |-> 3, price |-> 3500,
      amenities |-> <<"WiFi", "AC", "TV", "Mini Bar">>, status |-> "available"],
     [number |-> "202", type |-> "Deluxe", capacity |-> 3, price |-> 3500,
      amenities |-> <<"WiFi", "AC", "TV", "Mini Bar">>, status |-> "maintenance"],
     [number |-> "301", type |-> "Suite", capacity |-> 4, price |-> 5000,
      amenities |-> <<"WiFi", "AC", "TV", "Mini Bar", "Balcony">>,
      status |-> "available"] >>

----------------------------------------------------------------------------
(* The table `rooms`: a set of rows, and its sqlite_sequence entry. *)

Ids(table) == {r.id : r \in table}

\* The id of the next row of a table declared without AUTOINCREMENT: one
\* more than the largest id in the table now.
NextRowidReusing(table, seq) == MaxOf(Ids(table)) + 1

\* The id SQLite gives the next row of an AUTOINCREMENT table: one more than
\* the largest id the table ever held.
NextRowid(table, seq) == Max(seq, MaxOf(Ids(table))) + 1

\* NOT NULL on number, type, capacity, price.
RoomNotNull(v) ==
  v.number # Null /\ v.type # Null /\ v.capacity # Null /\ v.price # Null

\* The values of a row as the columns store them.
RoomColumns(v) ==
  [number |-> TextAffinity(v.number), type |-> TextAffinity(v.type),
   capacity |-> v.capacity, price |-> v.price,
   amenities |-> v.amenities, status |-> v.status]

\* created_at of a room is left out: it is set once, by its default, and
\* nothing but GET /api/rooms, which passes it on, reads it.
RoomRow(id, c) ==
  [id |-> id, number |-> c.number, type |-> c.type, capacity |-> c.capacity,
   price |-> c.price, amenities |-> c.amenities, status |-> c.status]

\* A column number declared without UNIQUE.
NumberFreeNoCheck(table, number, id) == TRUE

\* UNIQUE on number: no row other than `id` holds the number.
NumberFree(table, number, id) ==
  \A r \in table : r.id = id \/ r.number # number

\* INSERT INTO rooms (number, type, capacity, price, amenities, status)
InsertRoom(table, seq, v) ==
  LET c == RoomColumns(v)
      id == NextRowid(table, seq)
  IN  IF ~RoomNotNull(v)
        THEN [err |-> "NOT NULL constraint failed", table |-> table, seq |-> seq]
      ELSE IF ~NumberFree(table, c.number, id)
        THEN [err |-> "UNIQUE constraint failed: rooms.number",
              table |-> table, seq |-> seq]
      ELSE [err |-> "", table |-> table \cup {RoomRow(id, c)}, seq |-> id,
            lastID |-> id, changes |-> 1]

\* UPDATE OR REPLACE rooms SET ...: a row that holds the new number is
\* removed to make room for it, and a NULL is stored as it comes.
UpdateRoomOrReplace(table, v, id) ==
  LET c == RoomColumns(v)
      hit == {r \in table : r.id = id}
      clash == {r \in table : r.id # id /\ r.number = c.number}
  IN  IF hit = {} THEN [err |-> "", table |-> table, changes |-> 0]
      ELSE [err |-> "",
            table |-> (table \ (hit \cup clash)) \cup {RoomRow(r.id, c) : r \in hit},
            changes |-> Cardinality(hit)]

\* UPDATE rooms SET number, type, capacity, price, amenities, status WHERE id
UpdateRoom(table, v, id) ==
  LET c == RoomColumns(v)
      hit == {r \in table : r.id = id}
  IN  IF hit = {} THEN [err |-> "", table |-> table, changes |-> 0]
      ELSE IF ~RoomNotNull(v)
        THEN [err |-> "NOT NULL constraint failed", table |-> table]
      ELSE IF ~NumberFree(table, c.number, id)
        THEN [err |-> "UNIQUE constraint failed: rooms.number", table |-> table]
      ELSE [err |-> "",
            table |-> (table \ hit) \cup {RoomRow(r.id, c) : r \in hit},
            changes |-> Cardinality(hit)]

\* DELETE FROM rooms (every row, for want of the WHERE clause)
DeleteRoomRowNoWhere(table, id) ==
  [err |-> "", table |-> {}, changes |-> Cardinality(table)]

\* DELETE FROM rooms WHERE id
DeleteRoomRow(table, id) ==
  LET hit == {r \in table : r.id = id}
  IN  [err |-> "", table |-> table \ hit, changes |-> Cardinality(hit)]

\* The table after db.serialize has run the inserts of the sample rooms.
RECURSIVE Seeded(_)
Seeded(n) ==
  IF n = 0 THEN [table |-> {}, seq |-> 0]
  ELSE LET before == Seeded(n - 1)
           room == sampleRooms[n]
       IN  InsertRoom(before.table, before.seq,
             [number |-> Text(room.number), type |-> Text(room.type),
              capacity |-> Integer(room.capacity), price |-> Integer(room.price),
              amenities |-> Text(JSONStringify(room.amenities)),
              status |-> Text(room.status)])

----------------------------------------------------------------------------
(* The table `submissions`. *)

SubmissionNotNull(v) ==
  v.student_name # Null /\ v.work_type # Null /\ v.content # Null

\* INSERT with the parameters student_name and work_type in each other's place.
InsertSubmissionSwapped(table, seq, v, ts) ==
  LET id == Max(seq, MaxOf(Ids(table))) + 1
  IN  IF ~SubmissionNotNull(v)
        THEN [err |-> "NOT NULL constraint failed", table |-> table, seq |-> seq]
      ELSE [err |-> "", seq |-> id, lastID |-> id, changes |-> 1,
            table |-> table \cup
              {[id |-> id, student_name |-> TextAffinity(v.work_type),
                work_type |-> TextAffinity(v.student_name),
                content |-> TextAffinity(v.content), created_at |-> ts]}]

\* INSERT INTO submissions (student_name, work_type, content); created_at
\* takes its default, CURRENT_TIMESTAMP.
InsertSubmission(table, seq, v, ts) ==
  LET id == NextRowid(table, seq)
  IN  IF ~SubmissionNotNull(v)
        THEN [err |-> "NOT NULL constraint failed", table |-> table, seq |-> seq]
      ELSE [err |-> "", seq |-> id, lastID |-> id, changes |-> 1,
            table |-> table \cup
              {[id |-> id, student_name |-> TextAffinity(v.student_name),
                work_type |-> TextAffinity(v.work_type),
                content |-> TextAffinity(v.content), created_at |-> ts]}]

\* The sequences that hold every element of S once.
Perms(S) ==
  {s \in [1..Cardinality(S) -> S] :
     \A i, j \in 1..Cardinality(S) : s[i] = s[j] => i = j}

\* SELECT * FROM submissions ORDER BY created_at DESC: rows of one second
\* come in an order the statement leaves open.
SelectSubmissions(table) ==
  {s \in Perms(table) :
     \A i, j \in 1..Len(s) : i < j => s[i].created_at >= s[j].created_at}

\* SELECT * FROM submissions WHERE id = ?
GetSubmissionRow(table, id) == {r \in table : r.id = id}

\* BINARY collation, on the room numbers of this model.
Collate(s) ==
  CASE s = "" -> 0 [] s = "101" -> 1 [] s = "102" -> 2 [] s = "201" -> 3
    [] s = "202" -> 4 [] s = "301" -> 5 [] s = "401" -> 6

\* SELECT * FROM rooms ORDER BY number ASC (number is UNIQUE).
RECURSIVE SelectRooms(_)
SelectRooms(table) ==
  IF table = {} THEN <<>>
  ELSE LET first == CHOOSE r \in table :
                      \A q \in table : Collate(r.number.s) <= Collate(q.number.s)
       IN  <<first>> \o SelectRooms(table \ {first})

----------------------------------------------------------------------------
(* JSON.parse, on the texts of this model. *)

ContentNeedAC == "{\"title\":\"Need AC\"}"
ContentNull == "null"
ContentMalformed == "Need AC"

Object(title) ==
  [t |-> "object", title |-> title, description |-> Undef, data |-> Undef,
   studentId |-> Undef, studentEmail |-> Undef]

EmptyObject ==
  [t |-> "object", title |-> Undef, description |-> Undef, data |-> Undef,
   studentId |-> Undef, studentEmail |-> Undef]

JsNull == [t |-> "jsnull"]

\* The arrays of amenities of this model.
AmenityArrays ==
  {<<>>, <<"WiFi">>} \cup {sampleRooms[i].amenities : i \in 1..Len(sampleRooms)}

\* threw: a SyntaxError.
JSONParse(text) ==
  CASE text = ContentNeedAC -> [threw |-> FALSE, value |-> Object(Str("Need AC"))]
    [] text = ContentNull -> [threw |-> FALSE, value |-> JsNull]
    [] \E a \in AmenityArrays : text = JSONStringify(a) ->
         [threw |-> FALSE,
          value |-> Arr(CHOOSE a \in AmenityArrays : text = JSONStringify(a))]
    [] OTHER -> [threw |-> TRUE]

\* The row of GET /api/submissions in the third build: each property is read
\* off JSON.parse(row.content), which throws on a text that is no JSON and
\* on a property of null.
RowThrows(row) ==
  JSONParse(row.content.s).threw \/ JSONParse(row.content.s).value = JsNull

TransformSubmission(row) ==
  LET c == JSONParse(row.content.s).value
      prop(v) == IF c.t = "object" THEN v ELSE Undef
  IN  [id |-> row.id, studentName |-> row.student_name, type |-> row.work_type,
       title |-> OrElse(prop(c.title), Str("Untitled")),
       description |-> OrElse(prop(c.description), Str("")),
       data |-> OrElse(prop(c.data), EmptyObject),
       submittedAt |-> row.created_at,
       studentId |-> prop(c.studentId), studentEmail |-> prop(c.studentEmail)]

\* The row of GET /api/rooms: amenities is JSON.parse(row.amenities || '[]').
AmenitiesThrow(row) ==
  row.amenities # Null /\ row.amenities.s # "" /\ JSONParse(row.amenities.s).threw

TransformRoom(row) ==
  [id |-> row.id, number |-> row.number, type |-> row.type,
   capacity |-> row.capacity, price |-> row.price,
   amenities |-> IF row.amenities = Null \/ row.amenities.s = ""
                   THEN Arr(<<>>) ELSE JSONParse(row.amenities.s).value,
   status |-> row.status]

----------------------------------------------------------------------------
(* The requests. *)

validWorkTypes == <<"room_request", "report", "financial_report">>

SubmissionBase ==
  [studentName |-> Str("Jane"), workType |-> Str("room_request"),
   content |-> Str(ContentNeedAC)]

\* SubmissionBase with one field changed.
SubmissionBodies ==
  {[SubmissionBase EXCEPT !.studentName = v] : v \in {Str("Jane"), Str(""), Undef}}
  \cup {[SubmissionBase EXCEPT !.workType = v] :
          v \in {Str(validWorkTypes[i]) : i \in 1..Len(validWorkTypes)}
                  \cup {Str("bogus"), Undef}}
  \cup {[SubmissionBase EXCEPT !.content = v] :
          v \in {Str(ContentNull), Str(ContentMalformed), Str("")}}

RoomBase ==
  [number |-> Str("401"), type |-> Str("Suite"), capacity |-> Num(4),
   price |-> Num(5000), amenities |-> Undef, status |-> Undef]

\* RoomBase with one field changed.
RoomBodies ==
  {[RoomBase EXCEPT !.number = v] :
     v \in {Str("401"), Str("101"), Num(102), Str(""), Undef}}
  \cup {[RoomBase EXCEPT !.type = v] : v \in {Undef}}
  \cup {[RoomBase EXCEPT !.capacity = v] : v \in {Num(0), Num(-1), Undef}}
  \cup {[RoomBase EXCEPT !.price = v] : v \in {Num(0), Num(-5), Undef}}
  \cup {[RoomBase EXCEPT !.amenities = v] : v \in {Arr(<<"WiFi">>)}}
  \cup {[RoomBase EXCEPT !.status = v] : v \in {Str("occupied")}}

\* The :id of PUT and DELETE /api/rooms/:id. SQLite compares the text of the
\* parameter with the INTEGER column as the integer it spells.
RoomIdParams == {5, 6, 7}

PostSubmissionsReq(body) == [op |-> "POST /api/submissions", body |-> body]
PostRoomsReq(body) == [op |-> "POST /api/rooms", body |-> body]
PutRoomReq(id, body) == [op |-> "PUT /api/rooms/:id", id |-> id, body |-> body]
DeleteRoomReq(id) == [op |-> "DELETE /api/rooms/:id", id |-> id]

----------------------------------------------------------------------------
(* The handlers, in the three parts the event loop runs apart: the handler  *)
(* up to its db.run, the statement, and the callback of db.run.             *)

\* if (!studentName || !workType || !content)
MissingSubmissionFields(body) ==
  ~Truthy(body.studentName) \/ ~Truthy(body.workType) \/ ~Truthy(body.content)

\* A handler without the check of the work type.
InvalidWorkTypeUnchecked(body) == FALSE

\* if (!validWorkTypes.includes(workType))
InvalidWorkType(body) ==
  \A i \in 1..Len(validWorkTypes) : body.workType # Str(validWorkTypes[i])

\* if (!number || !type || !capacity || !price)
MissingRoomFields(body) ==
  ~Truthy(body.number) \/ ~Truthy(body.type) \/ ~Truthy(body.capacity)
    \/ ~Truthy(body.price)

\* The handler answers 400 without a statement.
Rejected(req) ==
  CASE req.op = "POST /api/submissions" ->
         MissingSubmissionFields(req.body) \/ InvalidWorkType(req.body)
    [] req.op = "POST /api/rooms" -> MissingRoomFields(req.body)
    [] OTHER -> FALSE

\* [number, type, capacity, price, JSON.stringify(amenities || []), status]
RoomParams(body, status) ==
  [number |-> Bind(body.number), type |-> Bind(body.type),
   capacity |-> Bind(body.capacity), price |-> Bind(body.price),
   amenities |-> Text(JSONStringify(OrElse(body.amenities, Arr(<<>>)).a)),
   status |-> Bind(status)]

\* The statement of db.run, on the database db at the second ts: the
\* database after it and what the callback is given (err, this).
Run(db, req, ts) ==
  CASE req.op = "POST /api/submissions" ->
         LET r == InsertSubmission(db.submissions, db.subSeq,
                    [student_name |-> Bind(req.body.studentName),
                     work_type |-> Bind(req.body.workType),
                     content |-> Bind(req.body.content)], ts)
         IN  [db |-> [db EXCEPT !.submissions = r.table, !.subSeq = r.seq], r |-> r]
    [] req.op = "POST /api/rooms" ->
         LET r == InsertRoom(db.rooms, db.roomSeq,
                    RoomParams(req.body, OrElse(req.body.status, Str("available"))))
         IN  [db |-> [db EXCEPT !.rooms = r.table, !.roomSeq = r.seq], r |-> r]
    [] req.op = "PUT /api/rooms/:id" ->
         LET r == UpdateRoom(db.rooms, RoomParams(req.body, req.body.status), req.id)
         IN  [db |-> [db EXCEPT !.rooms = r.table], r |-> r]
    [] req.op = "DELETE /api/rooms/:id" ->
         LET r == DeleteRoomRow(db.rooms, req.id)
         IN  [db |-> [db EXCEPT !.rooms = r.table], r |-> r]

Sent(status) == [sent |-> TRUE, status |-> status]

\* The callback throws: nothing is sent and the exception ends the process.
Thrown == [sent |-> FALSE]

\* A callback that does not look at this.changes.
ChangesResponseAlwaysOk(r) == Sent(200)

\* if (this.changes === 0) 404 'Room not found', else success.
ChangesResponse(r) == IF r.changes = 0 THEN Sent(404) ELSE Sent(200)

\* The callback of db.run in the third build.
Callback(req, r) ==
  IF r.err # "" THEN Sent(500)
  ELSE CASE req.op = "POST /api/submissions" ->
              IF JSONParse(req.body.content.s).threw THEN Thrown
              ELSE [sent |-> TRUE, status |-> 200,
                    data |-> [id |-> r.lastID, studentName |-> req.body.studentName,
                              workType |-> req.body.workType,
                              content |-> JSONParse(req.body.content.s).value]]
         [] req.op = "POST /api/rooms" ->
              [sent |-> TRUE, status |-> 200,
               data |-> [id |-> r.lastID, number |-> req.body.number,
                         type |-> req.body.type, capacity |-> req.body.capacity,
                         price |-> req.body.price,
                         amenities |-> OrElse(req.body.amenities, Arr(<<>>)),
                         status |-> OrElse(req.body.status, Str("available"))]]
         [] OTHER -> ChangesResponse(r)

\* db.get of the row inserted last in the table, whoever inserted it.
ReadBackLatest(db, lastID) ==
  LET got == GetSubmissionRow(db.submissions, MaxOf(Ids(db.submissions)))
  IN  IF got = {} THEN [sent |-> TRUE, status |-> 201, data |-> Undef]
      ELSE [sent |-> TRUE, status |-> 201, data |-> CHOOSE row \in got : TRUE]

\* The callback of db.get in the first build: the row read back.
ReadBack(db, lastID) ==
  LET got == GetSubmissionRow(db.submissions, lastID)
  IN  IF got = {} THEN [sent |-> TRUE, status |-> 201, data |-> Undef]
      ELSE [sent |-> TRUE, status |-> 201, data |-> CHOOSE row \in got : TRUE]

\* A request served with no other request in between.
Serve(build, db, req, ts) ==
  IF Rejected(req) THEN [db |-> db, resp |-> Sent(400)]
  ELSE LET ran == Run(db, req, ts)
       IN  [db |-> ran.db,
            resp |-> IF build = "first" /\ ran.r.err = ""
                       THEN ReadBack(ran.db, ran.r.lastID)
                       ELSE Callback(req, ran.r)]

----------------------------------------------------------------------------
(* The state. *)

VARIABLES
  server,          \* the build that runs: "first" or "third"
  running,         \* the process is alive (no callback has thrown)
  now,             \* CURRENT_TIMESTAMP, in seconds
  submissions,     \* the rows of the table submissions
  subSeq,          \* sqlite_sequence of submissions
  rooms,           \* the rows of the table rooms
  roomSeq,         \* sqlite_sequence of rooms
  resp,            \* the last request served and what was sent for it
  nreq,            \* POST, PUT and DELETE requests served
  everRoomIds,     \* history: every id a row of rooms has had
  deletedRoomIds,  \* history: every id a DELETE has removed
  pending          \* requests in flight (interleaved specification)

vars ==
  <<server, running, now, submissions, subSeq, rooms, roomSeq, resp, nreq,
    everRoomIds, deletedRoomIds, pending>>

Db ==
  [submissions |-> submissions, subSeq |-> subSeq, rooms |-> rooms,
   roomSeq |-> roomSeq]

InitDb ==
  [submissions |-> {}, subSeq |-> 0,
   rooms |-> Seeded(Len(sampleRooms)).table, roomSeq |-> Seeded(Len(sampleRooms)).seq]

Init ==
  /\ server \in {"first", "third"}
  /\ running = TRUE
  /\ now = 0
  /\ submissions = InitDb.submissions
  /\ subSeq = InitDb.subSeq
  /\ rooms = InitDb.rooms
  /\ roomSeq = InitDb.roomSeq
  /\ resp = [req |-> [op |-> "listen"], out |-> [sent |-> TRUE, status |-> 200]]
  /\ nreq = 0
  /\ everRoomIds = Ids(InitDb.rooms)
  /\ deletedRoomIds = {}
  /\ pending = <<>>

SetDb(db) ==
  /\ submissions' = db.submissions
  /\ subSeq' = db.subSeq
  /\ rooms' = db.rooms
  /\ roomSeq' = db.roomSeq
  /\ everRoomIds' = everRoomIds \cup Ids(db.rooms)
  /\ deletedRoomIds' = deletedRoomIds \cup (Ids(rooms) \ Ids(db.rooms))

UnchangedDb ==
  UNCHANGED <<submissions, subSeq, rooms, roomSeq, everRoomIds, deletedRoomIds>>

\* One second passes. Time shows only in created_at, so of the seconds in
\* which no row is inserted none is counted.
Tick ==
  /\ running
  /\ \E r \in submissions : r.created_at = now
  /\ now' = now + 1
  /\ UNCHANGED <<server, running, resp, nreq, pending>>
  /\ UnchangedDb

\* A POST, PUT or DELETE served from the handler to the end of its callbacks.
Handle(req) ==
  /\ running
  /\ nreq < MaxRequests
  /\ LET o == Serve(server, Db, req, now)
     IN  /\ SetDb(o.db)
         /\ resp' = [req |-> req, out |-> o.resp]
         /\ running' = o.resp.sent
  /\ nreq' = nreq + 1
  /\ UNCHANGED <<server, now, pending>>

\* A GET: what is sent, or the fault of its callback.
Answer(op, out) ==
  /\ resp' = [req |-> [op |-> op], out |-> out]
  /\ running' = out.sent
  /\ UNCHANGED <<server, now, nreq, pending>>
  /\ UnchangedDb

(* The first build. *)

GetSubmissionsFirst ==
  /\ running /\ server = "first"
  /\ \E rows \in SelectSubmissions(submissions) :
       Answer("GET /api/submissions", [sent |-> TRUE, status |-> 200, data |-> rows])

PostSubmissionsFirst ==
  /\ server = "first"
  /\ \E body \in SubmissionBodies : Handle(PostSubmissionsReq(body))

GetRoomsFirst ==
  /\ running /\ server = "first"
  /\ LET rows == SelectRooms(rooms)
     IN
       IF \E i \in 1..Len(rows) : AmenitiesThrow(rows[i])
         THEN Answer("GET /api/rooms", Thrown)
         ELSE Answer("GET /api/rooms",
                [sent |-> TRUE, status |-> 200,
                 data |-> [i \in 1..Len(rows) |->
                            [rows[i] EXCEPT !.amenities = TransformRoom(rows[i]).amenities]]])

(* The third build. *)

GetSubmissions ==
  /\ running /\ server = "third"
  /\ \E rows \in SelectSubmissions(submissions) :
       IF \E i \in 1..Len(rows) : RowThrows(rows[i])
         THEN Answer("GET /api/submissions", Thrown)
         ELSE Answer("GET /api/submissions",
                [sent |-> TRUE, status |-> 200,
                 data |-> [i \in 1..Len(rows) |-> TransformSubmission(rows[i])]])

PostSubmissions ==
  /\ server = "third"
  /\ \E body \in SubmissionBodies : Handle(PostSubmissionsReq(body))

GetRooms ==
  /\ running /\ server = "third"
  /\ LET rows == SelectRooms(rooms)
     IN
       IF \E i \in 1..Len(rows) : AmenitiesThrow(rows[i])
         THEN Answer("GET /api/rooms", Thrown)
         ELSE Answer("GET /api/rooms",
                [sent |-> TRUE, status |-> 200,
                 data |-> [i \in 1..Len(rows) |-> TransformRoom(rows[i])]])

PostRooms ==
  /\ server = "third"
  /\ \E body \in RoomBodies : Handle(PostRoomsReq(body))

PutRoom ==
  /\ server = "third"
  /\ \E id \in RoomIdParams, body \in RoomBodies : Handle(PutRoomReq(id, body))

DeleteRoom ==
  /\ server = "third"
  /\ \E id \in RoomIdParams : Handle(DeleteRoomReq(id))

Next ==
  \/ Tick
  \/ GetSubmissionsFirst
  \/ PostSubmissionsFirst
  \/ GetRoomsFirst
  \/ GetSubmissions
  \/ PostSubmissions
  \/ GetRooms
  \/ PostRooms
  \/ PutRoom
  \/ DeleteRoom

Spec == Init /\ [][Next]_vars

----------------------------------------------------------------------------
(* Requests in flight together.  The event loop runs the handler of a       *)
(* request up to its db.run; the statement runs in the database, one        *)
(* statement at a time (SQLite holds the connection's mutex for a whole     *)
(* statement, and node-sqlite3 reads lastID and changes under it); the      *)
(* callback runs on the event loop later, and in the first build queues     *)
(* db.get, whose callback answers.  Statements of different requests run in *)
(* any order.                                                               *)

ConcurrentRequests(build) ==
  IF build = "first"
    THEN {PostSubmissionsReq(body) :
            body \in {SubmissionBase,
                      [SubmissionBase EXCEPT !.workType = Str("report")],
                      [SubmissionBase EXCEPT !.content = Str(ContentNull)],
                      [SubmissionBase EXCEPT !.workType = Str("bogus")]}}
    ELSE LET bodies == {RoomBase, [RoomBase EXCEPT !.number = Str("101")]}
         IN  {PostRoomsReq(body) : body \in bodies \cup {[RoomBase EXCEPT !.capacity = Num(0)]}}
               \cup {PutRoomReq(id, body) : id \in {5, 6}, body \in bodies}
               \cup {DeleteRoomReq(id) : id \in {5, 6}}

\* The handler: it answers 400, or calls db.run.
Receive ==
  /\ running
  /\ Len(pending) < MaxInFlight
  /\ \E req \in ConcurrentRequests(server) :
       pending' = Append(pending,
         IF Rejected(req)
           THEN [req |-> req, pc |-> "done", r |-> [err |-> ""], out |-> Sent(400)]
           ELSE [req |-> req, pc |-> "queued", r |-> [err |-> ""], out |-> Thrown])
  /\ UNCHANGED <<server, running, now, resp, nreq>>
  /\ UnchangedDb

\* The statement of a db.run.
RunStatement ==
  /\ running
  /\ \E i \in 1..Len(pending) :
       /\ pending[i].pc = "queued"
       /\ LET ran == Run(Db, pending[i].req, now)
          IN  /\ SetDb(ran.db)
              /\ pending' = [pending EXCEPT ![i].pc = "ran", ![i].r = ran.r]
  /\ UNCHANGED <<server, running, now, resp, nreq>>

\* The callback of a db.run: it answers, or (first build, no error) calls db.get.
RunCallback ==
  /\ running
  /\ \E i \in 1..Len(pending) :
       /\ pending[i].pc = "ran"
       /\ IF server = "first" /\ pending[i].r.err = ""
            THEN pending' = [pending EXCEPT ![i].pc = "reading"]
            ELSE pending' = [pending EXCEPT ![i].pc = "done",
                                            ![i].out = Callback(pending[i].req, pending[i].r)]
  /\ UNCHANGED <<server, running, now, resp, nreq>>
  /\ UnchangedDb

\* SELECT * FROM submissions WHERE id = lastID, and its callback.
RunReadBack ==
  /\ running
  /\ \E i \in 1..Len(pending) :
       /\ pending[i].pc = "reading"
       /\ pending' = [pending EXCEPT ![i].pc = "done",
                                     ![i].out = ReadBack(Db, pending[i].r.lastID)]
  /\ UNCHANGED <<server, running, now, resp, nreq>>
  /\ UnchangedDb

NextConc ==
  \/ Receive
  \/ RunStatement
  \/ RunCallback
  \/ RunReadBack

SpecConc == Init /\ [][NextConc]_vars

----------------------------------------------------------------------------
(* The claims. *)

\* A step that serves the request resp' names.
Served(op) == nreq' # nreq /\ resp'.req.op = op

Answered(op) == resp.req.op = op /\ resp.out.sent

UnchangedTables == UNCHANGED <<submissions, subSeq, rooms, roomSeq>>

\* C1: no two rows of a table share an id, and a row that enters rooms takes
\* an id no row of rooms ever had, also when the row that had the highest id
\* was deleted before.
C1_IdsUniqueNeverReused ==
  /\ [](/\ \A a, b \in rooms : a.id = b.id => a = b
        /\ \A a, b \in submissions : a.id = b.id => a = b)
  /\ [][(Ids(rooms') \ Ids(rooms)) \cap everRoomIds = {}]_vars

\* A room was created after the room with the highest id had been deleted.
C1_Witness ==
  /\ Answered("POST /api/rooms") /\ resp.out.status = 200
  /\ \E d \in deletedRoomIds : d > MaxOf(Ids(rooms) \ {resp.out.data.id})
  /\ resp.out.data.id \in Ids(rooms)

\* C2: POST /api/rooms with the number of a room in the store answers with an
\* error and leaves the rows of rooms as they were.
C2_DuplicateNumberRejected ==
  [][(/\ Served("POST /api/rooms")
      /\ TextAffinity(Bind(resp'.req.body.number)) \in {r.number : r \in rooms})
     => /\ resp'.out.sent /\ resp'.out.status \in {400, 500}
        /\ rooms' = rooms]_vars

\* A room created by a POST, and a second POST with its number refused.
C2_Witness ==
  /\ Answered("POST /api/rooms") /\ resp.out.status = 500
  /\ resp.req.body.number = Str("401")
  /\ Cardinality({r \in rooms : r.number = Text("401")}) = 1

\* C3: PUT /api/rooms/:id with an id of no room answers 404 and changes no
\* room and no submission, whatever the body holds.
C3_UpdateMissingIsNotFound ==
  [][(Served("PUT /api/rooms/:id") /\ resp'.req.id \notin Ids(rooms))
     => /\ resp'.out.sent /\ resp'.out.status = 404
        /\ UnchangedTables]_vars

\* 404 for an unknown id though the body lacks the number.
C3_Witness ==
  /\ Answered("PUT /api/rooms/:id") /\ resp.out.status = 404
  /\ resp.req.body.number = Undef

\* C4: DELETE /api/rooms/:id with the id of a room answers with success and
\* removes that row and no other; from then on no row of rooms and no row of
\* an answer of GET /api/rooms has the id, and a DELETE with it answers 404.
C4_DeleteRemovesForGood ==
  /\ [][(Served("DELETE /api/rooms/:id") /\ resp'.req.id \in Ids(rooms))
        => /\ resp'.out.sent /\ resp'.out.status = 200
           /\ rooms' = {r \in rooms : r.id # resp'.req.id}
           /\ Cardinality(rooms') = Cardinality(rooms) - 1]_vars
  /\ [][(Served("DELETE /api/rooms/:id") /\ resp'.req.id \in deletedRoomIds)
        => resp'.out.sent /\ resp'.out.status = 404]_vars
  /\ [](/\ Ids(rooms) \cap deletedRoomIds = {}
        /\ Answered("GET /api/rooms") =>
             \A i \in 1..Len(resp.out.data) : resp.out.data[i].id \notin deletedRoomIds)

\* The second DELETE of an id answered 404, a room having been created in
\* between.
C4_Witness ==
  /\ Answered("DELETE /api/rooms/:id") /\ resp.out.status = 404
  /\ resp.req.id \in deletedRoomIds
  /\ \E r \in rooms : r.id \notin {row.id : row \in InitDb.rooms}

\* A field that is missing or empty.
Absent(v) == v = Undef \/ v = Str("") \/ v = Num(0)

WorkTypeEnumeration == {"room_request", "report", "financial_report"}

ValidSubmissionInput(body) ==
  /\ ~Absent(body.studentName) /\ ~Absent(body.content)
  /\ \E w \in WorkTypeEnumeration : body.workType = Str(w)

RowsOf(data) == {data[i] : i \in 1..Len(data)}

\* C5: in the first build, POST /api/submissions with a valid input adds one
\* row, with the student name, work type and content of the input and an id
\* above the id of every row there was; GET /api/submissions answers with the
\* rows of the table, each once.
C5_CreateThenList ==
  /\ [][(/\ Served("POST /api/submissions") /\ server = "first"
         /\ ValidSubmissionInput(resp'.req.body))
        => \E row \in submissions' :
             /\ row \notin submissions
             /\ submissions' = submissions \cup {row}
             /\ row.student_name = Text(resp'.req.body.studentName.s)
             /\ row.work_type = Text(resp'.req.body.workType.s)
             /\ row.content = Text(resp'.req.body.content.s)
             /\ \A old \in submissions : row.id > old.id
             /\ resp'.out.sent /\ resp'.out.status = 201
             /\ resp'.out.data = row]_vars
  /\ [][(nreq' = nreq /\ resp'.req.op = "GET /api/submissions" /\ server = "first")
        => /\ resp'.out.sent /\ resp'.out.status = 200
           /\ RowsOf(resp'.out.data) = submissions
           /\ Len(resp'.out.data) = Cardinality(submissions)]_vars

\* A list of two submissions, the second created after the first.
C5_Witness ==
  /\ server = "first" /\ Answered("GET /api/submissions")
  /\ Len(resp.out.data) = 2
  /\ \E a, b \in RowsOf(resp.out.data) : a.id < b.id /\ a.content # b.content

\* C6: in an answer of GET /api/submissions (first build, the handler the
\* claim names; the third build runs the same query) a submission created later stands
\* before every submission created earlier (ids grow with creation), also
\* when the two were created in one second; with no submission the answer is
\* the empty sequence.
C6_MostRecentFirst ==
  (server = "first" /\ resp.req.op = "GET /api/submissions")
    => /\ resp.out.sent /\ resp.out.status = 200
       /\ submissions = {} => resp.out.data = <<>>
       /\ \A i, j \in 1..Len(resp.out.data) :
            i < j => resp.out.data[i].id > resp.out.data[j].id

\* C7: a POST /api/submissions with studentName, workType or content absent or
\* with a workType outside the enumeration, and a POST /api/rooms with number,
\* type, capacity or price absent, is answered 400 and changes neither table;
\* every stored submission has a workType of the enumeration.
C7_InvalidInputRejected ==
  /\ [][(/\ Served("POST /api/submissions")
         /\ ~ValidSubmissionInput(resp'.req.body))
        => /\ resp'.out.sent /\ resp'.out.status = 400
           /\ UnchangedTables]_vars
  /\ [][(/\ Served("POST /api/rooms")
         /\ \/ Absent(resp'.req.body.number) \/ Absent(resp'.req.body.type)
            \/ Absent(resp'.req.body.capacity) \/ Absent(resp'.req.body.price))
        => /\ resp'.out.sent /\ resp'.out.status = 400
           /\ UnchangedTables]_vars
  /\ [](\A row \in submissions :
          \E w \in WorkTypeEnumeration : row.work_type = Text(w))

\* A submission of work type "bogus" answered 400 with a submission stored
\* before it.
C7_Witness ==
  /\ Answered("POST /api/submissions") /\ resp.out.status = 400
  /\ resp.req.body.workType = Str("bogus")
  /\ submissions # {}

\* C8: GET /api/submissions answers 200, and every request gets an answer:
\* no callback throws.
C8_AlwaysStructuredResponse ==
  /\ resp.out.sent
  /\ resp.req.op = "GET /api/submissions" => resp.out.status = 200
  /\ running

\* C9: every room has a positive integer capacity and a price that is a
\* number and not negative.
C9_CapacityPositivePriceNonNegative ==
  \A r \in rooms :
    /\ r.capacity.t = "integer" /\ r.capacity.n > 0
    /\ r.price.t = "integer" /\ r.price.n >= 0

\* The requests reqs served one at a time, in their order, from db.
RECURSIVE OneAtATime(_, _, _)
OneAtATime(build, db, reqs) ==
  IF reqs = <<>> THEN [db |-> db, outs |-> <<>>]
  ELSE LET o == Serve(build, db, Head(reqs), now)
           rest == OneAtATime(build, o.db, Tail(reqs))
       IN  [db |-> rest.db, outs |-> <<o.resp>> \o rest.outs]

AllAnswered == pending # <<>> /\ \A i \in 1..Len(pending) : pending[i].pc = "done"

Succeeded(i) == pending[i].out.sent /\ pending[i].out.status \in {200, 201}

\* C10: when every request in flight is answered, the tables and the answers
\* are those of the same requests served one at a time in some order; and of
\* the POST /api/rooms with one number that no room had, exactly one has
\* succeeded (no PUT or DELETE having succeeded beside them).
C10_Atomic ==
  AllAnswered =>
    /\ \E order \in Perms(1..Len(pending)) :
         LET one == OneAtATime(server, InitDb,
                      [k \in 1..Len(pending) |-> pending[order[k]].req])
         IN  /\ one.db = Db
             /\ \A k \in 1..Len(pending) : one.outs[k] = pending[order[k]].out
    /\ \A i \in 1..Len(pending) :
         LET same == {j \in 1..Len(pending) :
                        /\ pending[j].req.op = "POST /api/rooms"
                        /\ pending[j].req.body.number = pending[i].req.body.number
                        /\ pending[j].out.status # 400}
         IN  (/\ pending[i].req.op = "POST /api/rooms"
              /\ pending[i].out.status # 400
              /\ Bind(pending[i].req.body.number) \notin {r.number : r \in InitDb.rooms}
              /\ \A j \in 1..Len(pending) :
                   pending[j].req.op \in {"PUT /api/rooms/:id", "DELETE /api/rooms/:id"}
                     => ~Succeeded(j))
             => Cardinality({j \in same : Succeeded(j)}) = 1

\* Two POST /api/rooms with one number in flight together, the one received
\* second inserted first: it has succeeded and the first is refused.
C10_Witness ==
  /\ AllAnswered /\ Len(pending) = 2
  /\ pending[1].req = PostRoomsReq(RoomBase) /\ pending[2].req = PostRoomsReq(RoomBase)
  /\ pending[1].out.status = 500 /\ pending[2].out.status = 200

\* C11: PUT /api/rooms/:id with the id of a room and a number that another
\* room holds, or with number, type, capacity or price undefined, answers
\* with an error and changes no table; no two rooms ever hold one number.
C11_UpdateKeepsNumbersUnique ==
  /\ [][(/\ Served("PUT /api/rooms/:id")
         /\ resp'.req.id \in Ids(rooms)
         /\ \/ \E r \in rooms :
                 /\ r.id # resp'.req.id
                 /\ r.number = TextAffinity(Bind(resp'.req.body.number))
            \/ resp'.req.body.number = Undef \/ resp'.req.body.type = Undef
            \/ resp'.req.body.capacity = Undef \/ resp'.req.body.price = Undef)
        => /\ resp'.out.sent /\ resp'.out.status \in {400, 500}
           /\ UnchangedTables]_vars
  /\ [](\A a, b \in rooms : a.number = b.number => a = b)

\* A PUT that would give room 5 the number of room 1, refused, after a PUT
\* that gave room 5 another number.
C11_Witness ==
  /\ Answered("PUT /api/rooms/:id") /\ resp.out.status = 500
  /\ resp.req.body.number = Str("101")
  /\ \E r \in rooms : r.id = resp.req.id /\ r.number = Text("401")

====
